---- MODULE Spec2Model ----
(***************************************************************************)
(* Model of the export dialog of obsidian-better-export-pdf                *)
(* (ExportConfigModal) and of the parts of render.ts it drives.            *)
(*                                                                         *)
(* The program is single-threaded and event-driven: every action below is  *)
(* one run-to-completion segment of the code, from an event (user click,   *)
(* dom-ready, promise settlement) to the next await.                       *)
(***************************************************************************)
EXTENDS Integers, Sequences, FiniteSets, TLC

\* ---------------------------------------------------------------- bounds
MaxFiles == 2      \* documents a source expands to (folder files / toc links + 1)
MaxBlocks == 1     \* rendered blocks per document, besides the title heading
MaxEvents == 2     \* Refresh, snippet and Export events of one session

VARIABLES
  source,     \* this.file with what the host reports for it
  multiple,   \* this.multiple
  modal,      \* "constructed" | "open" | "closed"
  canceled,   \* this.canceled
  completed,  \* this.completed
  docs,       \* this.docs
  webviews,   \* this.webviews (surface ids)
  preview,    \* this.preview (surface id, None before the first surface)
  surfaces,   \* every webview element created so far, by id
  passes,     \* every call of appendWebviews, with its position and locals
  exports,    \* every call of handleExport, with its position and locals
  requests,   \* every call of exportToPDF, in call order
  call        \* a call of a function of render.ts or of the surface script that
              \* is studied on its own: its arguments, locals and position

vars == <<source, multiple, modal, canceled, completed, docs, webviews,
          preview, surfaces, passes, exports, requests>>

None == 0
NoDoc == <<0, 0>>
NoAnswer == "pending"
NoCall == [fn |-> "none"]
Declined == ""
Chosen == "out"

\* ------------------------------------------------------------ documents
\* A DOM node: identity, tag, text and ordered children.
Node(id, tag, text, kids) == [id |-> id, tag |-> tag, text |-> text, kids |-> kids]

RECURSIVE Size(_)
RECURSIVE SizeSeq(_)
Size(n) == 1 + SizeSeq(n.kids)
SizeSeq(s) == IF s = <<>> THEN 0 ELSE Size(s[1]) + SizeSeq(Tail(s))

RECURSIVE NodeIds(_)
RECURSIVE NodeIdsSeq(_)
NodeIds(n) == {n.id} \cup NodeIdsSeq(n.kids)
NodeIdsSeq(s) == IF s = <<>> THEN {} ELSE NodeIds(s[1]) \cup NodeIdsSeq(Tail(s))

\* A node without its identity: what a deep copy preserves.
RECURSIVE Shape(_)
RECURSIVE ShapeSeq(_)
Shape(n) == [tag |-> n.tag, text |-> n.text, kids |-> ShapeSeq(n.kids)]
ShapeSeq(s) == IF s = <<>> THEN <<>> ELSE <<Shape(s[1])>> \o ShapeSeq(Tail(s))

\* document.importNode(node, deep) into document dest: new nodes owned by
\* dest, numbered from base in document order.
RECURSIVE ImportNode(_, _, _, _)
RECURSIVE ImportSeq(_, _, _, _)
ImportNode(dest, node, base, deep) ==
  Node(<<dest[1], dest[2], base>>, node.tag, node.text,
       IF deep THEN ImportSeq(dest, node.kids, base + 1, deep) ELSE <<>>)
ImportSeq(dest, s, base, deep) ==
  IF s = <<>> THEN <<>>
  ELSE <<ImportNode(dest, s[1], base, deep)>>
       \o ImportSeq(dest, Tail(s), base + Size(s[1]), deep)

\* The children of .markdown-preview-view that renderMarkdown builds for the
\* i-th document of pass p: the title heading, then one wrapper div per
\* rendered block.
RenderedView(p, i, f, title, nblocks) ==
  <<Node(<<p, i, 1>>, "h1", title, <<>>)>>
  \o [j \in 1..nblocks |->
        Node(<<p, i, 2 * j>>, "div", None,
             <<Node(<<p, i, 2 * j + 1>>, "p", f, <<>>)>>)]

\* renderMarkdown(app, file, config, extra): a fresh document.
RenderMarkdown(p, i, f, nblocks) ==
  [id |-> <<p, i>>, file |-> f,
   view |-> RenderedView(p, i, f, f, nblocks),
   next |-> 2 * nblocks + 2,
   fixed |-> FALSE]

\* fixDoc(doc, title): rewrites the document in place and returns it.
FixDoc(d) == [d EXCEPT !.fixed = TRUE]

\* section.appendChild(doc0.importNode(child, true))
CopyChildShared(dest, child, base) == child

CopyChild(dest, child, base) == ImportNode(dest, child, base, TRUE)

RECURSIVE CopyChildren(_, _, _)
CopyChildren(dest, s, base) ==
  IF s = <<>> THEN <<>>
  ELSE <<CopyChild(dest, s[1], base)>>
       \o CopyChildren(dest, Tail(s), base + Size(s[1]))

\* The loop of mergeDoc: one section per document, created in doc0.
RECURSIVE Sections(_, _, _)
Sections(dest, ds, base) ==
  IF ds = <<>> THEN <<>>
  ELSE <<Node(<<dest[1], dest[2], base>>, "section", None,
              CopyChildren(dest, ds[1].view, base + 1))>>
       \o Sections(dest, Tail(ds), base + 1 + SizeSeq(ds[1].view))

\* mergeDoc(docs) on the local array (docs non-empty): doc0's content
\* container is emptied and receives the sections; the other documents are
\* left as they were.
MergeDoc(ds) ==
  LET doc0 == ds[1]
      sections == Sections(doc0.id, ds, doc0.next)
  IN [ds EXCEPT ![1] = [doc0 EXCEPT !.view = sections,
                                   !.next = doc0.next + SizeSeq(sections)]]

\* The end of renderFiles: the value this.docs is left with.  mergeDoc sets
\* this.docs to [doc0]; the assignment that follows replaces it with the
\* whole local array.
RenderFilesTail(ds) ==
  LET merged == IF ~multiple THEN MergeDoc(ds) ELSE ds
  IN [i \in 1..Len(merged) |-> FixDoc(merged[i])]

\* --------------------------------------------------------------- source
\* The documents renderFiles transforms, in order.
FilesToRender ==
  IF source.kind = "folder" THEN source.files
  ELSE <<source.files[1]>> \o (IF source.toc THEN source.links ELSE <<>>)

\* The sources a session is opened on: a folder of 0..MaxFiles documents, or a
\* document with or without a table of contents and its resolved links.
Sources ==
  {[kind |-> "folder", files |-> [i \in 1..n |-> i], toc |-> FALSE,
    links |-> <<>>] : n \in 0..MaxFiles}
  \cup
  {[kind |-> "file", files |-> <<1>>, toc |-> t,
    links |-> [i \in 1..n |-> i + 1]] :
      n \in 0..(MaxFiles - 1), t \in BOOLEAN}

\* The number of blocks the host renders for document f: documents of
\* different sizes, an empty one among them.
Blocks(f) == f % (MaxBlocks + 1)

\* ----------------------------------------------------------------- Init
\* new ExportConfigModal(plugin, file, multiple)
InitCanceledFalse == FALSE

InitCanceled == TRUE

Init ==
  /\ call = NoCall
  /\ source \in Sources
  /\ multiple \in BOOLEAN
  /\ modal = "constructed"
  /\ canceled = InitCanceled
  /\ completed = FALSE
  /\ docs = <<>>
  /\ webviews = <<>>
  /\ preview = None
  /\ surfaces = <<>>
  /\ passes = <<>>
  /\ exports = <<>>
  /\ requests = <<>>

\* ------------------------------------------------------ preview rebuild
NewSurface(d) == [doc |-> d.id, attached |-> TRUE, ready |-> FALSE, injected |-> FALSE]

\* e.empty(): every surface in the container is removed from it.  A webview
\* element taken out of the page loses its guest page: it is no longer ready
\* and holds no injected content.
Emptied ==
  [w \in DOMAIN surfaces |->
     [surfaces[w] EXCEPT !.attached = FALSE, !.ready = FALSE, !.injected = FALSE]]

\* appendWebviews after renderFiles: e.empty(), then appendWebview for every
\* entry of this.docs (ds).
Rebuild(ds) ==
  LET created == [i \in 1..Len(ds) |-> NewSurface(ds[i])]
      ids == [i \in 1..Len(ds) |-> Len(surfaces) + i]
  IN /\ surfaces' = Emptied \o created
     /\ webviews' = webviews \o ids
     /\ preview' = IF Len(ds) > 0 THEN Len(surfaces) + Len(ds) ELSE preview

\* renderFiles has transformed every document (local array ds): merge, set
\* this.docs, return to appendWebviews, rebuild.  mergeDoc throws on an empty
\* array, which ends the pass before e.empty().
FinishPass(p, ds, ps) ==
  IF ~multiple /\ ds = <<>>
  THEN /\ passes' = [ps EXCEPT ![p].pc = "failed"]
       /\ UNCHANGED <<docs, surfaces, webviews, preview>>
  ELSE /\ docs' = RenderFilesTail(ds)
       /\ passes' = [ps EXCEPT ![p].pc = "done", ![p].docs = docs']
       /\ Rebuild(docs')

\* appendWebviews(e, render = true) up to its first await that leaves the
\* event: renderFiles calls renderMarkdown for the first document.
StartPass ==
  LET p == Len(passes) + 1
      new == [render |-> TRUE, pc |-> "rendering", docs |-> <<>>]
  IN IF FilesToRender = <<>>
     THEN FinishPass(p, <<>>, Append(passes, new))
     ELSE /\ passes' = Append(passes, new)
          /\ UNCHANGED <<docs, surfaces, webviews, preview>>

\* Modal.open(): onOpen builds the dialog and starts the first render pass.
OnOpen ==
  /\ modal = "constructed"
  /\ modal' = "open"
  /\ StartPass
  /\ UNCHANGED <<call, source, multiple, canceled, completed, exports, requests>>

\* The dialog's controls exist until onClose empties contentEl.
ControlsLiveAlways == TRUE

ControlsLive == modal = "open"

\* Refresh, snippet and Export events so far (the pass of onOpen is no event).
Events == (Len(passes) - 1) + Len(exports)

\* Refresh button: appendWebviews(this.previewDiv)
Refresh ==
  /\ ControlsLive
  /\ Events < MaxEvents
  /\ StartPass
  /\ UNCHANGED <<call, source, multiple, modal, canceled, completed, exports, requests>>

\* CSS snippet dropdown: appendWebviews(this.previewDiv, false)
SnippetChange ==
  /\ ControlsLive
  /\ Events < MaxEvents
  /\ passes' = Append(passes, [render |-> FALSE, pc |-> "done", docs |-> docs])
  /\ Rebuild(docs)
  /\ UNCHANGED <<call, source, multiple, modal, canceled, completed, docs, exports, requests>>

\* The document the renderMarkdown call in flight in pass p returns.
InFlightDoc(p) ==
  LET i == Len(passes[p].docs) + 1
      f == FilesToRender[i]
  IN RenderMarkdown(p, i, f, Blocks(f))

\* The renderMarkdown call of pass p returns and renderFiles resumes: push
\* the document, then transform the next one, or reopen the toc document, or
\* run to its return, after which appendWebviews rebuilds the preview.
RenderMarkdownDone(p) ==
  /\ passes[p].pc = "rendering"
  /\ LET ds == Append(passes[p].docs, InFlightDoc(p))
     IN IF Len(ds) < Len(FilesToRender)
        THEN /\ passes' = [passes EXCEPT ![p].docs = ds]
             /\ UNCHANGED <<docs, surfaces, webviews, preview>>
        ELSE IF source.kind = "file" /\ source.toc
        THEN /\ passes' = [passes EXCEPT ![p].docs = ds, ![p].pc = "reopen"]
             /\ UNCHANGED <<docs, surfaces, webviews, preview>>
        ELSE FinishPass(p, ds, passes)
  /\ UNCHANGED <<call, source, multiple, modal, canceled, completed, exports, requests>>

\* renderFiles resumes after `await leaf.openFile(this.file)` and runs to its
\* return; appendWebviews rebuilds the preview.
ReopenDone(p) ==
  /\ passes[p].pc = "reopen"
  /\ FinishPass(p, passes[p].docs, passes)
  /\ UNCHANGED <<call, source, multiple, modal, canceled, completed, exports, requests>>

\* ---------------------------------------------------------------- surfaces
\* dom-ready of a surface: the handler runs up to its first await.
DomReady(w) ==
  /\ modal = "open"
  /\ surfaces[w].attached
  /\ ~surfaces[w].ready
  /\ surfaces' = [surfaces EXCEPT ![w].ready = TRUE]
  /\ completed' = TRUE
  /\ UNCHANGED <<call, source, multiple, modal, canceled, docs, webviews, preview,
                 passes, exports, requests>>

\* preview.executeJavaScript(this.makeWebviewJs(doc)) has replaced the
\* surface's body and head.
Inject(w) ==
  /\ modal = "open"
  /\ surfaces[w].attached
  /\ surfaces[w].ready
  /\ ~surfaces[w].injected
  /\ surfaces' = [surfaces EXCEPT ![w].injected = TRUE]
  /\ UNCHANGED <<call, source, multiple, modal, canceled, completed, docs, webviews,
                 preview, passes, exports, requests>>

\* ------------------------------------------------------------------ export
\* Export button or Enter: handleExport starts.  It awaits saveSettings and
\* then the output prompt; it reads no state of the dialog in between, so
\* both waits are the one position "prompt".
ExportClick ==
  /\ ControlsLive
  /\ Events < MaxEvents
  /\ exports' = Append(exports, [pc |-> "prompt", out |-> NoAnswer, thrown |-> FALSE,
                                 running |-> 0])
  /\ UNCHANGED <<call, source, multiple, modal, canceled, completed, docs, webviews,
                 preview, surfaces, passes, requests>>

\* if (outputPath) / if (outputFile)
OutputGivenAlways(out) == TRUE

OutputGiven(out) == out # Declined

Request(e, w, d, name) == [exp |-> e, surface |-> w, doc |-> d, target |-> name]

\* The exportToPDF calls of handleExport, in call order.  In multiple-output
\* mode the callback of webviews.map reads this.docs[i]; past the end of
\* this.docs that read throws before exportToPDF is called.
ExportCalls(e) ==
  IF multiple
  THEN [i \in 1..(IF Len(webviews) < Len(docs) THEN Len(webviews) ELSE Len(docs)) |->
          Request(e, webviews[i], docs[i].id, docs[i].file)]
  ELSE <<Request(e,
                 IF Len(webviews) > 0 THEN webviews[1] ELSE None,
                 IF Len(docs) > 0 THEN docs[1].id ELSE NoDoc,
                 None)>>

MapThrows == multiple /\ Len(webviews) > Len(docs)

\* The output prompt settles with `out`.
Answer(e, out) ==
  /\ exports[e].pc = "prompt"
  /\ IF OutputGiven(out)
     THEN /\ requests' = requests \o ExportCalls(e)
          /\ exports' = [exports EXCEPT ![e].pc = "exporting", ![e].out = out,
                                        ![e].thrown = MapThrows,
                                        ![e].running = Len(ExportCalls(e))]
     ELSE /\ exports' = [exports EXCEPT ![e].pc = "declined", ![e].out = out]
          /\ UNCHANGED requests
  /\ UNCHANGED <<call, source, multiple, modal, canceled, completed, docs, webviews,
                 preview, surfaces, passes>>

\* One exportToPDF call of handleExport e settles; `running` counts the calls
\* of e that have not settled yet, as Promise.all does.
TaskDone(e) ==
  /\ exports[e].running > 0
  /\ exports' = [exports EXCEPT ![e].running = @ - 1]
  /\ UNCHANGED <<call, source, multiple, modal, canceled, completed, docs, webviews,
                 preview, surfaces, passes, requests>>

TasksOf(e) == {r \in DOMAIN requests : requests[r].exp = e}

\* await Promise.all(...) / await exportToPDF(...) has settled successfully.
JoinedAny(e) == exports[e].running < Cardinality(TasksOf(e))

Joined(e) == exports[e].running = 0

\* handleExport resumes after the join and calls this.close().
ExportClose(e) ==
  /\ exports[e].pc = "exporting"
  /\ ~exports[e].thrown
  /\ Joined(e)
  /\ exports' = [exports EXCEPT ![e].pc = "closed"]
  /\ modal' = "closed"
  /\ UNCHANGED <<call, source, multiple, canceled, completed, docs, webviews,
                 preview, surfaces, passes, requests>>

\* Promise.all rejects because a callback threw: handleExport ends without
\* closing.
ExportReject(e) ==
  /\ exports[e].pc = "exporting"
  /\ exports[e].thrown
  /\ exports' = [exports EXCEPT ![e].pc = "failed"]
  /\ UNCHANGED <<call, source, multiple, modal, canceled, completed, docs, webviews,
                 preview, surfaces, passes, requests>>

\* The user closes the dialog (Escape, close button, click outside).
UserClose ==
  /\ modal = "open"
  /\ modal' = "closed"
  /\ UNCHANGED <<call, source, multiple, canceled, completed, docs, webviews,
                 preview, surfaces, passes, exports, requests>>

Next ==
  \/ OnOpen
  \/ Refresh
  \/ SnippetChange
  \/ \E p \in DOMAIN passes : RenderMarkdownDone(p)
  \/ \E p \in DOMAIN passes : ReopenDone(p)
  \/ \E w \in DOMAIN surfaces : DomReady(w)
  \/ \E w \in DOMAIN surfaces : Inject(w)
  \/ ExportClick
  \/ \E e \in DOMAIN exports : \E out \in {Declined, Chosen} : Answer(e, out)
  \/ \E e \in DOMAIN exports : TaskDone(e)
  \/ \E e \in DOMAIN exports : ExportClose(e)
  \/ \E e \in DOMAIN exports : ExportReject(e)
  \/ UserClose

Spec == Init /\ [][Next]_vars

\* ------------------------------------------------------------ properties
\* The surfaces that are children of the preview container.
Attached == {w \in DOMAIN surfaces : surfaces[w].attached}

\* No render pass is under way.
PassesSettled == \A p \in DOMAIN passes : passes[p].pc \in {"done", "failed"}

\* The PreviewReady state of the session: the dialog is open, the last render
\* pass has finished and every surface of the preview has its content.
PreviewReady ==
  /\ modal = "open"
  /\ \E p \in DOMAIN passes : passes[p].pc = "done"
  /\ PassesSettled
  /\ Attached # {}
  /\ \A w \in Attached : surfaces[w].ready /\ surfaces[w].injected

\* handleExport e issues its PDF-generation requests in this step.
Issues(e) ==
  /\ e \in DOMAIN exports
  /\ exports[e].pc = "prompt"
  /\ exports'[e].pc = "exporting"

\* The requests issued in this step.
Issued == {requests'[i] : i \in (Len(requests) + 1)..Len(requests')}

\* The file of the rendered document with identity d in this.docs.
FileOfDoc(d) == {docs[i].file : i \in {j \in DOMAIN docs : docs[j].id = d}}

\* C1: once a preview rebuild has finished, `webviews` holds exactly one
\* surface per entry of `docs`, and every surface in it is one the last
\* rebuild created (it is still in the preview container).
C1_WebviewsRebuilt ==
  (\E p \in DOMAIN passes : passes[p].pc = "done") =>
    /\ Len(webviews) = Len(docs)
    /\ \A i \in DOMAIN webviews : surfaces[webviews[i]].attached

\* C2: in single-output mode, an export confirmed from a ready preview of one
\* document issues exactly one request, and the surface it passes is the only
\* surface in the preview container, loaded with the current docs[0].
C2_SingleExportUsesSoleSurface ==
  [][\A e \in DOMAIN exports :
       (~multiple /\ PreviewReady /\ Len(docs) = 1 /\ Issues(e)) =>
         /\ Cardinality(Issued) = 1
         /\ \A r \in Issued :
              /\ r.exp = e
              /\ Attached = {r.surface}
              /\ surfaces[r.surface].doc = docs[1].id
              /\ r.doc = docs[1].id]_vars

\* C3: in multiple-output mode with N source documents, an export confirmed
\* from a ready preview issues exactly N requests, each pairing a surface
\* with the rendered document loaded into that surface and targeting that
\* document's file name.
C3_MultipleExportPairsSurfaceAndDoc ==
  [][\A e \in DOMAIN exports :
       (multiple /\ PreviewReady /\ Issues(e)) =>
         /\ Len(requests') = Len(requests) + Len(FilesToRender)
         /\ \A r \in Issued :
              /\ r.exp = e
              /\ r.surface \in DOMAIN surfaces
              /\ surfaces[r.surface].doc = r.doc
              /\ FileOfDoc(r.doc) = {r.target}]_vars

\* C4: with multiple-output off, once renderFiles has returned, `docs` has
\* exactly one entry and the preview has exactly one surface.
C4_MergedToOneDocument ==
  (~multiple /\ \E p \in DOMAIN passes : passes[p].render /\ passes[p].pc = "done") =>
    /\ Len(docs) = 1
    /\ Cardinality(Attached) = 1

\* A render pass of a single-output session runs mergeDoc in this step.
MergeStep(p) ==
  /\ ~multiple
  /\ p \in DOMAIN passes
  /\ passes[p].pc \in {"rendering", "reopen"}
  /\ passes'[p].pc = "done"

\* The documents mergeDoc is called with in that step, as they are before it.
MergeInput(p) ==
  IF passes[p].pc = "reopen" THEN passes[p].docs
  ELSE Append(passes[p].docs, InFlightDoc(p))

\* C5: mergeDoc on N documents leaves the first document's content container
\* with exactly N section elements, in input order; section i is a deep copy
\* of the children of document i's content container (document 0 included)
\* and shares no node with any source.
C5_MergeDocSections ==
  [][\A p \in DOMAIN passes :
       MergeStep(p) =>
         LET input == MergeInput(p)
             out == docs'[1].view
         IN /\ docs'[1].id = input[1].id
            /\ Len(out) = Len(input)
            /\ \A i \in DOMAIN out :
                 /\ out[i].tag = "section"
                 /\ ShapeSeq(out[i].kids) = ShapeSeq(input[i].view)
                 /\ \A j \in DOMAIN input :
                      NodeIds(out[i]) \cap NodeIdsSeq(input[j].view) = {}
            /\ Cardinality(NodeIdsSeq(out)) = SizeSeq(out)]_vars

\* A merge of two or more documents has happened, and the second section has
\* content.
C5_Witness ==
  /\ ~multiple
  /\ Len(docs) >= 2
  /\ Len(docs[1].view) = Len(docs)
  /\ docs[1].view[2].tag = "section"
  /\ docs[1].view[2].kids # <<>>
  /\ docs[1].view[1].kids # <<>>

\* C6: a PDF-generation request is issued only from PreviewReady: the render
\* pass has finished and the surface passed has signalled dom-ready and has
\* its content.
C6_RequestOnlyFromPreviewReady ==
  [][requests' # requests =>
       /\ PreviewReady
       /\ \A r \in Issued :
            /\ r.surface \in DOMAIN surfaces
            /\ surfaces[r.surface].ready
            /\ surfaces[r.surface].injected]_vars

\* The renderMarkdown calls in flight.
InFlight == {p \in DOMAIN passes : passes[p].pc = "rendering"}

\* C7: at most one renderMarkdown call is in flight at any time.
C7_OneTransformInFlight == Cardinality(InFlight) <= 1

\* C8: when the output prompt is declined, handleExport issues no request and
\* ends without closing the session, in both modes: the step that takes the
\* empty answer changes neither the session nor the requests, and the
\* handler stays ended.
C8_DeclinedPromptDoesNothing ==
  [][\A e \in DOMAIN exports' :
       exports'[e].out = Declined =>
         /\ TasksOf(e) = {}
         /\ \A r \in Issued : r.exp # e
         /\ exports'[e].pc = "declined"
         /\ exports'[e].running = 0
         /\ (e \in DOMAIN exports /\ exports[e].out = NoAnswer) =>
              (modal' = modal /\ requests' = requests)]_vars

\* A prompt has been declined with a preview in place, and the dialog is
\* still open.
C8_Witness ==
  \E e \in DOMAIN exports :
    /\ exports[e].out = Declined
    /\ modal = "open"
    /\ Len(webviews) > 0

\* C9: every step that leaves the session closed with no export confirmed
\* before it leaves `canceled` true, no export confirmed and no request
\* issued; so a session closed before export never issues a request, whatever
\* render work is still running.
C9_ClosedBeforeExport ==
  [][(modal' = "closed" /\ exports = <<>>) =>
       /\ canceled' = TRUE
       /\ exports' = <<>>
       /\ requests' = <<>>]_vars

\* The session was closed before any export while a document was being
\* transformed.
C9_Witness ==
  /\ modal = "closed"
  /\ exports = <<>>
  /\ InFlight # {}

\* C10 as stated: the session is never closed while a PDF-generation task is
\* running.
C10_NoCloseWhileTaskRunning ==
  (multiple /\ modal = "closed") =>
    \A e \in DOMAIN exports : exports[e].running = 0

\* C10, amended: in multiple-output mode a handleExport call closes the
\* session only after every PDF-generation task it started has settled.
C10_JoinBeforeOwnClose ==
  multiple =>
    \A e \in DOMAIN exports :
      exports[e].pc = "closed" => exports[e].running = 0

\* An export of two or more documents has closed the session.
C10_Witness ==
  /\ multiple
  /\ \E e \in DOMAIN exports :
       exports[e].pc = "closed" /\ Cardinality(TasksOf(e)) >= 2

\* ======================================================================
\* renderMarkdown: block anchor placement (render.ts 193-211)
\* ======================================================================
MaxLines == 2      \* lines of the source text
MaxMarkers == 2    \* `^id` occurrences on one line

\* The session, constructed and never opened: the state around a call that is
\* studied on its own.
Parked ==
  /\ source = [kind |-> "folder", files |-> <<>>, toc |-> FALSE, links |-> <<>>]
  /\ multiple = FALSE
  /\ modal = "constructed"
  /\ canceled = InitCanceled
  /\ completed = FALSE
  /\ docs = <<>>
  /\ webviews = <<>>
  /\ preview = None
  /\ surfaces = <<>>
  /\ passes = <<>>
  /\ exports = <<>>
  /\ requests = <<>>

allVars == <<vars, call>>

\* Block ids, as character sequences: "a" and "ab" (one a prefix of the other).
AnchorIds == {<<1>>, <<1, 2>>}

IsPrefix(x, y) == Len(x) <= Len(y) /\ SubSeq(y, 1, Len(x)) = x

\* What a line of text is made of, as far as anchor placement can tell: the
\* `^id` occurrences in it, the spans put in, a paragraph break, other text.
Marker(id) == [kind |-> "marker", id |-> id]
Span(id) == [kind |-> "span", id |-> id]
Break == [kind |-> "break", id |-> <<>>]
Undefined == [kind |-> "undefined", id |-> <<>>]

\* line.includes(`^${id}`): `^a` also occurs inside `^ab`.
Includes(line, id) ==
  \E t \in DOMAIN line : line[t].kind = "marker" /\ IsPrefix(id, line[t].id)

\* line.replace(blockid, `<span id="${blockid}" class="blockid"></span> ${blockid}`):
\* the first occurrence gets the span in front of it.
ReplaceFirst(line, id) ==
  LET t == CHOOSE k \in DOMAIN line :
             /\ line[k].kind = "marker" /\ IsPrefix(id, line[k].id)
             /\ \A j \in 1..(k - 1) :
                  ~(line[j].kind = "marker" /\ IsPrefix(id, line[j].id))
  IN SubSeq(line, 1, t - 1) \o <<Span(id), line[t]>> \o SubSeq(line, t + 1, Len(line))

\* The anchors of `remaining` (the Map, in iteration order) that line i (from
\* 0) satisfies the test of the inner loop for.
Matches(line, i, remaining) ==
  {k \in DOMAIN remaining :
     /\ Includes(line, remaining[k].id)
     /\ i >= remaining[k].start
     /\ i <= remaining[k].end}

Min(S) == CHOOSE x \in S : \A y \in S : x <= y

Without(seq, k) == SubSeq(seq, 1, k - 1) \o SubSeq(seq, k + 1, Len(seq))

\* blocks.delete(id)
ConsumeNothing(remaining, k) == remaining

Consume(remaining, k) == Without(remaining, k)

\* The map over the lines: [lines, blocks] after lines i.. of `ls` (the first
\* of them is line i of the text).
RECURSIVE MapLines(_, _, _)
MapLines(ls, i, remaining) ==
  IF ls = <<>> THEN [lines |-> <<>>, blocks |-> remaining]
  ELSE LET hit == Matches(ls[1], i, remaining)
           k == Min(hit)
           line == IF hit = {} THEN ls[1] ELSE ReplaceFirst(ls[1], remaining[k].id)
           left == IF hit = {} THEN remaining ELSE Consume(remaining, k)
           rest == MapLines(Tail(ls), i + 1, left)
       IN [lines |-> <<line>> \o rest.lines, blocks |-> rest.blocks]

\* lines[idx] = `<span id="^${id}" class="blockid"></span>\n\n` + lines[idx];
\* past the end of the array the line read is undefined and the array grows,
\* with holes that join() renders empty.
Prepend(ls, idx, id) ==
  IF idx + 1 <= Len(ls)
  THEN [ls EXCEPT ![idx + 1] = <<Span(id), Break>> \o @]
  ELSE [j \in 1..(idx + 1) |->
          IF j <= Len(ls) THEN ls[j]
          ELSE IF j = idx + 1 THEN <<Span(id), Break, Undefined>>
          ELSE <<>>]

\* The forEach over the anchors left in the Map.
RECURSIVE Synthetic(_, _)
Synthetic(ls, remaining) ==
  IF remaining = <<>> THEN ls
  ELSE Synthetic(Prepend(ls, remaining[1].start, remaining[1].id), Tail(remaining))

\* view?.data: the raw text as its lines, or nothing.
Text(ls) == [present |-> TRUE, lines |-> ls]
Missing == [present |-> FALSE, lines |-> <<>>]

\* data?.split("\n") ?? []
SplitLines(data) == IF data.present THEN data.lines ELSE <<>>

\* The anchor placement of renderMarkdown: the lines handed to the renderer.
PlaceAnchors(data, blocks) ==
  LET mapped == MapLines(SplitLines(data), 0, blocks)
  IN Synthetic(mapped.lines, mapped.blocks)

\* ---- the inputs
RECURSIVE SeqsUpTo(_, _)
SeqsUpTo(S, n) ==
  IF n = 0 THEN {<<>>}
  ELSE LET shorter == SeqsUpTo(S, n - 1)
       IN shorter \cup {Append(q, x) : q \in shorter, x \in S}

\* A line: up to MaxMarkers occurrences of `^a` / `^ab`.
TextLines == SeqsUpTo({Marker(id) : id \in AnchorIds}, MaxMarkers)

\* A text of MaxLines lines, or no text.
Texts == {Text(ls) : ls \in [1..MaxLines -> TextLines]} \cup {Missing}

\* An entry of cache.blocks.
Anchors ==
  {[id |-> id, start |-> s, end |-> e] :
     id \in AnchorIds, s \in 0..(MaxLines - 1), e \in 0..(MaxLines - 1)}

\* cache.blocks in iteration order: anchors with different ids, start <= end.
BlockMaps ==
  {b \in SeqsUpTo(Anchors, Cardinality(AnchorIds)) :
     /\ \A i \in DOMAIN b : b[i].start <= b[i].end
     /\ \A i, j \in DOMAIN b : i # j => b[i].id # b[j].id}

AnchorInit ==
  /\ Parked
  /\ call \in {[fn |-> "placeAnchors", pc |-> "start", data |-> d, blocks |-> b,
               lines |-> <<>>] : d \in Texts, b \in BlockMaps}

\* renderMarkdown lines 193-211
AnchorStep ==
  /\ call.fn = "placeAnchors"
  /\ call.pc = "start"
  /\ call' = [call EXCEPT !.pc = "placed",
                          !.lines = PlaceAnchors(call.data, call.blocks)]
  /\ UNCHANGED vars

AnchorNext == AnchorStep

SpecAnchors == AnchorInit /\ [][AnchorNext]_allVars

RECURSIVE CountSpans(_, _)
CountSpans(line, id) ==
  IF line = <<>> THEN 0
  ELSE (IF line[1] = Span(id) THEN 1 ELSE 0) + CountSpans(Tail(line), id)

RECURSIVE CountSpansIn(_, _)
CountSpansIn(ls, id) ==
  IF ls = <<>> THEN 0 ELSE CountSpans(ls[1], id) + CountSpansIn(Tail(ls), id)

MarkerLines(b) ==
  {i \in b.start..b.end :
     i + 1 <= Len(call.data.lines) /\ Includes(call.data.lines[i + 1], b.id)}

\* The span of anchor `id` wraps a marker on this line.
WrappedOn(line, id) ==
  \E t \in DOMAIN line :
    line[t] = Span(id) /\ t < Len(line) /\ line[t + 1].kind = "marker"

\* C12: an anchor whose marker occurs on a line of its range has its span on
\* such a line, wrapping the marker; it gets no synthetic span.
C12_MarkerLinePreferred ==
  (call.fn = "placeAnchors" /\ call.pc = "placed") =>
    \A k \in DOMAIN call.blocks :
      LET b == call.blocks[k]
      IN MarkerLines(b) # {} =>
           \E i \in MarkerLines(b) : WrappedOn(call.lines[i + 1], b.id)

\* ======================================================================
\* renderMarkdown: internal-link repair (render.ts 260-268)
\* ======================================================================
MaxAnchorLinks == 2   \* a.internal-link elements in the rendered document

\* file.basename of the document being transformed.
Basename == "note"

\* The texts around the `#` of a data-href: titles as strings, anchors as
\* character sequences.
Titles == {"", Basename, "other"}
AnchorTexts == {<<>>, <<"^", "b">>, <<"h">>}

\* el.dataset.href split at "#": no attribute, a title alone, or a title and
\* an anchor.
NoHref == [has |-> FALSE, parts |-> <<>>]
Hrefs ==
  {NoHref}
  \cup {[has |-> TRUE, parts |-> <<[title |-> t, anchor |-> <<>>]>>] : t \in Titles}
  \cup {[has |-> TRUE, parts |-> <<[title |-> t, anchor |-> <<>>],
                                   [title |-> "", anchor |-> a]>>] :
          t \in Titles, a \in AnchorTexts}

\* const [title, anchor] = el.dataset.href?.split("#") ?? []
HasTitle(h) == Len(h.parts) >= 1 /\ h.parts[1].title # ""
TitleOf(h) == h.parts[1].title
HasAnchor(h) == Len(h.parts) >= 2
AnchorOf(h) == h.parts[2].anchor

\* anchor?.startsWith("^")
StartsWithCaret(h) ==
  HasAnchor(h) /\ Len(AnchorOf(h)) > 0 /\ AnchorOf(h)[1] = "^"

\* (!title || title?.length == 0 || title == file.basename)
SameDocument(h) == ~HasTitle(h) \/ TitleOf(h) = Basename

\* The guard of the early return: the link keeps its href.
KeepsHrefEither(h) == SameDocument(h) \/ StartsWithCaret(h)

KeepsHref(h) == SameDocument(h) /\ StartsWithCaret(h)

\* The forEach over printEl.findAll("a.internal-link").
RepairLinks(links) ==
  [i \in DOMAIN links |->
     IF KeepsHref(links[i].datahref) THEN links[i]
     ELSE [links[i] EXCEPT !.href = FALSE]]

LinkInit ==
  /\ Parked
  /\ call \in {[fn |-> "repairLinks", pc |-> "start", links |-> ls] :
               ls \in SeqsUpTo({[datahref |-> h, href |-> TRUE] : h \in Hrefs},
                               MaxAnchorLinks)}

\* renderMarkdown lines 260-268
LinkStep ==
  /\ call.fn = "repairLinks"
  /\ call.pc = "start"
  /\ call' = [call EXCEPT !.pc = "repaired", !.links = RepairLinks(call.links)]
  /\ UNCHANGED vars

LinkNext == LinkStep

SpecLinks == LinkInit /\ [][LinkNext]_allVars

\* The link names another document / a block anchor, as the claim reads it.
ForeignTitle(h) == HasTitle(h) /\ TitleOf(h) # Basename
BlockAnchorLink(h) == StartsWithCaret(h)

\* C13 as stated: a link loses its href exactly when its title is non-empty
\* and differs from the base name and its anchor is no block anchor.
C13_StripsForeignNonBlockOnly ==
  (call.fn = "repairLinks" /\ call.pc = "repaired") =>
    \A i \in DOMAIN call.links :
      LET h == call.links[i].datahref
      IN ~call.links[i].href <=> (ForeignTitle(h) /\ ~BlockAnchorLink(h))

\* C13, amended: a link keeps its href exactly when its title is empty or the
\* base name and its anchor starts with "^"; every other internal link loses
\* it.
C13_KeepsSameDocumentBlockLinksOnly ==
  (call.fn = "repairLinks" /\ call.pc = "repaired") =>
    \A i \in DOMAIN call.links :
      LET h == call.links[i].datahref
      IN call.links[i].href <=>
           ((~ForeignTitle(h)) /\ BlockAnchorLink(h))

\* A same-document block link kept its href next to a same-document heading
\* link that lost it.
C13_Witness ==
  /\ call.fn = "repairLinks" /\ call.pc = "repaired"
  /\ \E i, j \in DOMAIN call.links :
       /\ call.links[i].href
       /\ ~call.links[j].href
       /\ ~ForeignTitle(call.links[j].datahref)
       /\ HasAnchor(call.links[j].datahref)

\* ======================================================================
\* renderFiles: table-of-contents branch (part_000 110-129) and the title
\* heading of renderMarkdown (render.ts 178-183)
\* ======================================================================
MaxTocLinks == 3   \* entries of cache.links of the toc document

\* Link texts of the toc document.
LinkNames == {"a", "b"}

\* crypto.randomUUID(): a fresh id per entry of cache.links; the entry's
\* position stands for it.
RandomUUID(i) == i

\* doc.querySelector(`a[data-href="${link}"]`): the first such element, or
\* None.
QuerySelector(elems, link) ==
  LET hits == {j \in DOMAIN elems : elems[j].datahref = link}
  IN IF hits = {} THEN None ELSE Min(hits)

\* The map callback's effect on the document, entry by entry:
\* if (elem) elem.href = `#${id}`.
RECURSIVE RewriteLinks(_, _, _)
RewriteLinks(elems, links, i) ==
  IF i > Len(links) THEN elems
  ELSE LET j == QuerySelector(elems, links[i])
       IN RewriteLinks(IF j = None THEN elems
                       ELSE [elems EXCEPT ![j].href = RandomUUID(i)],
                       links, i + 1)

\* .map(...) result then .filter((item) => item.file instanceof TFile).
RECURSIVE TocItems(_, _, _)
TocItems(links, resolves, i) ==
  IF i > Len(links) THEN <<>>
  ELSE (IF resolves[links[i]]
        THEN <<[id |-> RandomUUID(i), file |-> links[i]]>> ELSE <<>>)
       \o TocItems(links, resolves, i + 1)

\* The h1.__title__ of a transformed document: e.id = extra?.id ?? "".
TitleHeading(file, extraId) == [file |-> file, titleId |-> extraId]

\* The toc document first, then one transformed document per item.
TocDocs(items) ==
  <<TitleHeading("toc", None)>>
  \o [k \in 1..Len(items) |-> TitleHeading(items[k].file, items[k].id)]

TocInit ==
  /\ Parked
  /\ call \in {[fn |-> "toc", pc |-> "start", links |-> ls, resolves |-> r,
                elems |-> [j \in DOMAIN ls |->
                             [datahref |-> ls[j], href |-> None]],
                docs |-> <<>>] :
               ls \in SeqsUpTo(LinkNames, MaxTocLinks),
               r \in [LinkNames -> BOOLEAN]}

\* renderFiles lines 108-129 for a document with frontMatter.toc
TocStep ==
  /\ call.fn = "toc"
  /\ call.pc = "start"
  /\ call' = [call EXCEPT
       !.pc = "rendered",
       !.elems = RewriteLinks(call.elems, call.links, 1),
       !.docs = TocDocs(TocItems(call.links, call.resolves, 1))]
  /\ UNCHANGED vars

TocNext == TocStep

SpecToc == TocInit /\ [][TocNext]_allVars

\* C14: every link of the toc document rewritten to a generated #id has a
\* transformed document whose title heading carries that id.
C14_RewrittenLinkHasTarget ==
  (call.fn = "toc" /\ call.pc = "rendered") =>
    \A j \in DOMAIN call.elems :
      call.elems[j].href # None =>
        \E d \in DOMAIN call.docs : call.docs[d].titleId = call.elems[j].href

\* ======================================================================
\* encodeEmbeds (render.ts 295-298) and the decode run inside the surface
\* (part_000 208-224)
\* ======================================================================
MaxSpans == 3   \* span.markdown-embed elements in a document

\* HTML content is a sequence of nodes: a text node carrying plain
\* characters, a text node carrying the percent-encoding of some HTML, or a
\* span.markdown-embed element with its content.
PlainText(c) == [kind |-> "text", enc |-> FALSE, c |-> c, kids |-> <<>>]
EncText(html) == [kind |-> "text", enc |-> TRUE, c |-> "", kids |-> html]
EmbedSpan(html) == [kind |-> "span", enc |-> FALSE, c |-> "", kids |-> html]

\* Characters of a text node: nothing, text without escapes, text that reads
\* as a percent escape.
TextChoices == {"", "t", "%41"}

\* encodeURIComponent(span.innerHTML) written back through innerHTML: one
\* text node holding the encoding of the former content ("%" of an inner
\* encoding becomes "%25", so encodings nest).
EncodeURIComponent(html) == <<EncText(html)>>

\* decodeURIComponent on plain characters: a percent escape is replaced.
DecodeChars(c) == IF c = "%41" THEN "A" ELSE c

\* decodeURIComponent(element.innerHTML) parsed back through innerHTML: one
\* level of encoding is removed everywhere in the serialised content, markup
\* of element children included.
RECURSIVE DecodeURIComponent(_)
DecodeURIComponent(html) ==
  IF html = <<>> THEN <<>>
  ELSE LET n == Head(html)
       IN (IF n.kind = "span" THEN <<EmbedSpan(DecodeURIComponent(n.kids))>>
           ELSE IF n.enc THEN n.kids
           ELSE <<PlainText(DecodeChars(n.c))>>)
          \o DecodeURIComponent(Tail(html))

\* doc.querySelectorAll("span.markdown-embed"): the elements in document
\* order, each named by its path of child positions.
RECURSIVE PathsAt(_, _, _)
PathsAt(html, prefix, i) ==
  IF i > Len(html) THEN <<>>
  ELSE (IF html[i].kind = "span"
        THEN <<prefix \o <<i>>>> \o PathsAt(html[i].kids, prefix \o <<i>>, 1)
        ELSE <<>>)
       \o PathsAt(html, prefix, i + 1)

SpanPaths(html) == PathsAt(html, <<>>, 1)

InDocumentOrder(spans) == spans

\* Array.from(...).reverse()
Reversed(spans) == [i \in DOMAIN spans |-> spans[Len(spans) + 1 - i]]

\* span.innerHTML = encodeURIComponent(span.innerHTML) for the element at
\* path p; an element whose ancestor was replaced is no longer in the
\* document and the assignment leaves the document alone.
RECURSIVE EncodeAt(_, _)
EncodeAt(html, p) ==
  IF p = <<>> THEN EncodeURIComponent(html)
  ELSE LET i == Head(p)
       IN IF i \notin DOMAIN html \/ html[i].kind # "span" THEN html
          ELSE [html EXCEPT ![i].kids = EncodeAt(html[i].kids, Tail(p))]

RECURSIVE EncodeEach(_, _)
EncodeEach(html, spans) ==
  IF spans = <<>> THEN html
  ELSE EncodeEach(EncodeAt(html, Head(spans)), Tail(spans))

EncodeEmbeds(doc) == EncodeEach(doc, Reversed(SpanPaths(doc)))

\* decodeAndReplaceEmbed and the forEach that calls it. Of the elements a
\* querySelectorAll list holds, those inside an element decoded earlier in
\* the same list were replaced by the parse and are out of the document, so
\* the list acts on the outermost spans; the recursion reaches the others.
RECURSIVE ForEachEmbed(_)
RECURSIVE DecodeAndReplaceEmbed(_)
ForEachEmbed(html) ==
  [i \in DOMAIN html |->
     IF html[i].kind = "span"
     THEN EmbedSpan(DecodeAndReplaceEmbed(html[i].kids))
     ELSE html[i]]

DecodeAndReplaceEmbed(kids) == ForEachEmbed(DecodeURIComponent(kids))

\* makeWebviewJs: the body travels percent-encoded inside the script and is
\* decoded into document.body.innerHTML, then every embed is decoded.
WebviewJs(body) ==
  ForEachEmbed(DecodeURIComponent(EncodeURIComponent(body)))

\* Documents with n embed spans: span j sits in span parent[j] (0 is the
\* body), after the text of its container if there is one.
RECURSIVE BuildFrom(_, _, _, _, _)
BuildFrom(n, parent, txt, c, j) ==
  IF j > n THEN <<>>
  ELSE (IF parent[j] = c
        THEN <<EmbedSpan((IF txt[j] = "" THEN <<>> ELSE <<PlainText(txt[j])>>)
                         \o BuildFrom(n, parent, txt, j, j + 1))>>
        ELSE <<>>)
       \o BuildFrom(n, parent, txt, c, j + 1)

EmbedDocs ==
  UNION {{BuildFrom(n, parent, txt, None, 1) :
            parent \in {f \in [1..n -> 0..n] : \A j \in 1..n : f[j] < j},
            txt \in [1..n -> TextChoices]} : n \in 0..MaxSpans}

EmbedInit ==
  /\ Parked
  /\ call \in {[fn |-> "embeds", pc |-> "start", original |-> d, doc |-> d] :
               d \in EmbedDocs}

\* fixDoc: encodeEmbeds(doc)
EncodeStep ==
  /\ call.fn = "embeds"
  /\ call.pc = "start"
  /\ call' = [call EXCEPT !.pc = "encoded", !.doc = EncodeEmbeds(call.doc)]
  /\ UNCHANGED vars

\* executeJavaScript(makeWebviewJs(doc)) in the surface
DecodeStep ==
  /\ call.fn = "embeds"
  /\ call.pc = "encoded"
  /\ call' = [call EXCEPT !.pc = "decoded", !.doc = WebviewJs(call.doc)]
  /\ UNCHANGED vars

EmbedNext == EncodeStep \/ DecodeStep

SpecEmbeds == EmbedInit /\ [][EmbedNext]_allVars

\* C15: encodeEmbeds followed by the surface's recursive decode gives back
\* the original content, for any nesting and any number of sibling embeds.
C15_EncodeDecodeRoundTrip ==
  (call.fn = "embeds" /\ call.pc = "decoded") => call.doc = call.original

\* A decoded document with two sibling embeds, one of them holding an embed
\* whose content is percent-escape text.
C15_Witness ==
  /\ call.fn = "embeds" /\ call.pc = "decoded"
  /\ \E p \in {q \in {SpanPaths(call.original)[k] :
                        k \in DOMAIN SpanPaths(call.original)} : Len(q) = 2} :
       /\ call.original[p[1]].kids[p[2]].kids = <<PlainText("%41")>>
       /\ \E r \in DOMAIN call.original :
            r # p[1] /\ call.original[r].kind = "span"

\* ======================================================================
\* createWebview: the click handler installed in a surface
\* (render.ts 338-362)
\* ======================================================================
MaxSiblings == 2   \* elements of the parent before any click
MaxClicks == 4     \* clicks in one preview

\* An element of the content, and a div.pagedjs_page_break.
ContentElement(id) == [kind |-> "element", id |-> id]
PageBreak(id) == [kind |-> "pagedjs_page_break", id |-> id]

\* clickedElement.previousElementSibling: the position before, or None.
PreviousElementSibling(siblings, i) == IF i > 1 THEN i - 1 ELSE None

\* existingPageBreak && existingPageBreak.classList.contains(...)
ExistingPageBreak(siblings, i) ==
  /\ PreviousElementSibling(siblings, i) # None
  /\ siblings[PreviousElementSibling(siblings, i)].kind = "pagedjs_page_break"

\* existingPageBreak.remove()
RemoveBefore(siblings, i) == Without(siblings, i - 1)

\* clickedElement.parentNode?.insertBefore(pageBreak, clickedElement)
InsertBefore(siblings, i, new) ==
  SubSeq(siblings, 1, i - 1) \o <<new>> \o SubSeq(siblings, i, Len(siblings))

\* The listener, for the element at position i; fresh names the div it may
\* create.
ClickHandler(siblings, i, fresh) ==
  IF ExistingPageBreak(siblings, i) THEN RemoveBefore(siblings, i)
  ELSE InsertBefore(siblings, i, PageBreak(fresh))

ClickInit ==
  /\ Parked
  /\ call \in {[fn |-> "clicks", pc |-> "listening",
                siblings |-> [i \in 1..n |-> ContentElement(i)],
                created |-> n, clicks |-> 0,
                target |-> None, repeated |-> FALSE, before |-> <<>>] :
               n \in 1..MaxSiblings}

\* A click whose event.target is the element at position i; the record
\* keeps what the siblings were before the first of two clicks in a row on
\* one element.
Click(i) ==
  /\ call.fn = "clicks"
  /\ call.clicks < MaxClicks
  /\ i \in DOMAIN call.siblings
  /\ LET el == call.siblings[i]
         again == call.target = el.id /\ ~call.repeated
     IN call' = [call EXCEPT
          !.siblings = ClickHandler(call.siblings, i, call.created + 1),
          !.created = call.created + 1,
          !.clicks = call.clicks + 1,
          !.target = el.id,
          !.repeated = again,
          !.before = IF again THEN call.before ELSE call.siblings]
  /\ UNCHANGED vars

ClickNext == \E i \in 1..(MaxSiblings + MaxClicks) : Click(i)

SpecClicks == ClickInit /\ [][ClickNext]_allVars

\* The siblings as a reader of the page sees them: which element or a
\* marker at each position.
Seen(siblings) ==
  [i \in DOMAIN siblings |->
     IF siblings[i].kind = "pagedjs_page_break" THEN None ELSE siblings[i].id]

\* C16: after two clicks in a row on one element the siblings are what they
\* were before the first of the two.
C16_TwoClicksRestore ==
  (call.fn = "clicks" /\ call.repeated) =>
    Seen(call.siblings) = Seen(call.before)

\* ======================================================================
\* calcPageSize (part_000 168-183)
\* ======================================================================
MaxPageWidthPx == 3        \* mm2px(width), in pixels
MaxContainerWidthPx == 40  \* el.offsetWidth, in pixels

\* A scale as Math.floor(...) / 100 gives it: a whole number of hundredths,
\* or Infinity when the container is zero pixels wide.
Hundredths(n) == [finite |-> TRUE, hundredths |-> n]
Infinity == [finite |-> FALSE, hundredths |-> None]

ScaleInverted(pageWidthPx, offsetWidth) ==
  Hundredths((offsetWidth * 100) \div pageWidthPx)

\* Math.floor((mm2px(width) / el.offsetWidth) * 100) / 100
Scale(pageWidthPx, offsetWidth) ==
  IF offsetWidth = 0 THEN Infinity
  ELSE Hundredths((pageWidthPx * 100) \div offsetWidth)

\* One computation: the inputs read and the scale written to the styles.
Computed(pageWidthPx, offsetWidth) ==
  [pageWidthPx |-> pageWidthPx, offsetWidth |-> offsetWidth,
   scale |-> Scale(pageWidthPx, offsetWidth)]

\* The first run, by the ResizeObserver when the container is observed.
ScaleInit ==
  /\ Parked
  /\ call \in {[fn |-> "calcPageSize", pc |-> "scaled",
                now |-> Computed(p, w), previous |-> Computed(p, w)] :
               p \in 1..MaxPageWidthPx, w \in 0..MaxContainerWidthPx}

\* ResizeObserver callback: the container has a new width.
Resize(w) ==
  /\ call.fn = "calcPageSize"
  /\ w # call.now.offsetWidth
  /\ call' = [call EXCEPT !.previous = call.now,
                          !.now = Computed(call.now.pageWidthPx, w)]
  /\ UNCHANGED vars

\* calcPageSize() called again with nothing changed (a control rewrote the
\* same page size).
Recompute ==
  /\ call.fn = "calcPageSize"
  /\ call' = [call EXCEPT !.previous = call.now,
                          !.now = Computed(call.now.pageWidthPx,
                                           call.now.offsetWidth)]
  /\ UNCHANGED vars

ScaleNext == (\E w \in 0..MaxContainerWidthPx : Resize(w)) \/ Recompute

SpecScale == ScaleInit /\ [][ScaleNext]_allVars

\* s is at least t.
AtLeast(s, t) ==
  ~s.finite \/ (t.finite /\ s.hundredths >= t.hundredths)

\* C17: for one page width a wider container never gets a larger scale, and
\* the same inputs give the same scale.
C17_ScaleMonotoneAndRepeatable ==
  call.fn = "calcPageSize" =>
    /\ call.previous.offsetWidth <= call.now.offsetWidth =>
         AtLeast(call.previous.scale, call.now.scale)
    /\ call.previous.offsetWidth >= call.now.offsetWidth =>
         AtLeast(call.now.scale, call.previous.scale)
    /\ call.previous.offsetWidth = call.now.offsetWidth =>
         call.now.scale = call.previous.scale

\* The container grew by one pixel and the scale dropped.
C17_Witness ==
  /\ call.fn = "calcPageSize"
  /\ call.now.offsetWidth = call.previous.offsetWidth + 1
  /\ call.now.scale.finite /\ call.previous.scale.finite
  /\ call.now.scale.hundredths < call.previous.scale.hundredths

\* ======================================================================
\* fixWaitRender (render.ts 300-309), waitForDomChange (render.ts 366-389)
\* and the end of renderMarkdown (render.ts 269-285)
\* ======================================================================
\* Time in ticks of the quiescence interval (200 ms).
IntervalTicks == 1         \* interval = 200
TimeoutTicks == 10         \* timeout = 2000
EmbedSleepTicks == 10      \* sleep(2000)
FallbackSleepTicks == 5    \* sleep(1000)

\* The raw text as fixWaitRender reads it: undefined, or a string with or
\* without one of the three embed patterns.
WaitData == {[present |-> p, embeds |-> e] : p, e \in BOOLEAN} \
            {[present |-> FALSE, embeds |-> TRUE]}

\* resolve / reject of a promise: the first call settles it, later calls are
\* ignored.
Settle(promise, outcome) == IF promise = "pending" THEN outcome ELSE promise

\* A timer armed for tick t is due.
Due(t, now) == t # None /\ t = now

\* new Promise(...) of waitForDomChange: observer connected, the outer
\* setTimeout armed, no quiescence timer yet.
StartWait(c) ==
  [c EXCEPT !.pc = "waiting", !.observer = TRUE, !.promise = "pending",
            !.outer = c.now + TimeoutTicks, !.wake = None]

\* await waitForDomChange throws with no handler around it.
RejectedUncaught(c) == [c EXCEPT !.pc = "failed"]

\* catch (error) { await sleep(1000) }
Rejected(c) ==
  [c EXCEPT !.pc = "sleep1000", !.wake = c.now + FallbackSleepTicks]

\* fixWaitRender returns; renderMarkdown replaces the canvases, clones the
\* content and returns the document.
Returned(c) == [c EXCEPT !.pc = "returned", !.wake = None]

WaitInit ==
  /\ Parked
  /\ call \in {[fn |-> "fixWaitRender", pc |-> "called", data |-> d,
                now |-> 0, mutated |-> FALSE, observer |-> FALSE,
                timer |-> None, outer |-> None, wake |-> None,
                promise |-> "unstarted", calls |-> 0, warned |-> FALSE,
                quiet |-> FALSE] :
               d \in WaitData}

\* renderMarkdown line 270: fixWaitRender(data, viewEl) up to its first
\* await. data.includes on undefined throws; the catch of renderMarkdown
\* logs "wait timeout" and the transformation goes on.
FixWaitRender ==
  /\ call.fn = "fixWaitRender"
  /\ call.pc = "called"
  /\ call' = IF ~call.data.present
             THEN [Returned(call) EXCEPT !.warned = TRUE]
             ELSE IF call.data.embeds
             THEN [call EXCEPT !.pc = "sleep2000",
                               !.wake = call.now + EmbedSleepTicks]
             ELSE StartWait(call)
  /\ UNCHANGED vars

\* sleep(2000) is over: waitForDomChange(viewEl)
EmbedSleepDone ==
  /\ call.fn = "fixWaitRender"
  /\ call.pc = "sleep2000"
  /\ Due(call.wake, call.now)
  /\ call' = StartWait(call)
  /\ UNCHANGED vars

\* MutationObserver callback: clearTimeout(timer); timer = setTimeout(...,
\* interval). Mutations within one tick count as one.
Mutate ==
  /\ call.fn = "fixWaitRender"
  /\ call.observer
  /\ ~call.mutated
  /\ call' = [call EXCEPT !.timer = call.now + IntervalTicks,
                          !.mutated = TRUE]
  /\ UNCHANGED vars

\* The quiescence timer fires: observer.disconnect(); resolve(true). If it
\* settles the promise, fixWaitRender and renderMarkdown run on to the
\* return.
QuiescenceTimer ==
  /\ call.fn = "fixWaitRender"
  /\ Due(call.timer, call.now)
  /\ LET c == [call EXCEPT !.observer = FALSE, !.timer = None,
                           !.calls = call.calls + 1,
                           !.promise = Settle(call.promise, "resolved")]
     IN call' = IF call.promise = "pending" THEN Returned(c) ELSE c
  /\ UNCHANGED vars

\* The outer setTimeout fires (it is never cleared): observer.disconnect();
\* reject(...). If it settles the promise, fixWaitRender's catch sleeps.
TimeoutTimer ==
  /\ call.fn = "fixWaitRender"
  /\ Due(call.outer, call.now)
  /\ LET c == [call EXCEPT !.observer = FALSE, !.outer = None,
                           !.calls = call.calls + 1,
                           !.promise = Settle(call.promise, "rejected")]
     IN call' = IF call.promise = "pending" THEN Rejected(c) ELSE c
  /\ UNCHANGED vars

\* sleep(1000) is over: fixWaitRender returns.
FallbackSleepDone ==
  /\ call.fn = "fixWaitRender"
  /\ call.pc = "sleep1000"
  /\ Due(call.wake, call.now)
  /\ call' = Returned(call)
  /\ UNCHANGED vars

\* Time passes when no timer is due and something is still armed or
\* awaited. quiet records that a whole interval went by without a mutation
\* while the wait was pending.
Tick ==
  /\ call.fn = "fixWaitRender"
  /\ call.pc \in {"sleep2000", "waiting", "sleep1000"}
     \/ call.timer # None \/ call.outer # None
  /\ \A t \in {call.timer, call.outer, call.wake} : ~Due(t, call.now)
  /\ call' = [call EXCEPT
       !.now = call.now + 1,
       !.mutated = FALSE,
       !.quiet = call.quiet \/ (call.promise = "pending" /\ ~call.mutated)]
  /\ UNCHANGED vars

\* What the event loop does by itself, without the page mutating.
EventLoop ==
  \/ FixWaitRender
  \/ EmbedSleepDone
  \/ QuiescenceTimer
  \/ TimeoutTimer
  \/ FallbackSleepDone
  \/ Tick

WaitNext == EventLoop \/ Mutate

\* Due timers run and time passes; nothing obliges the page to mutate.
SpecWait == WaitInit /\ [][WaitNext]_allVars /\ WF_allVars(EventLoop)

\* C18: the stability wait ends with renderMarkdown returning its document,
\* whatever the mutations; a wait that was started has settled by then, and
\* a settled wait never changes its outcome.
C18_WaitTerminatesSettledOnce ==
  /\ <>(call.fn = "fixWaitRender" /\ call.pc = "returned")
  /\ [](call.fn = "fixWaitRender" /\ call.pc = "returned"
        /\ call.promise # "unstarted"
          => call.promise \in {"resolved", "rejected"})
  /\ [][call.promise \in {"resolved", "rejected"}
          => call'.promise = call.promise]_allVars

\* Mutation went on past the timeout: the wait was rejected, the late
\* quiescence timer fired as well, and the document was returned.
C18_Witness ==
  /\ call.fn = "fixWaitRender"
  /\ call.pc = "returned"
  /\ call.promise = "rejected"
  /\ call.calls = 2

\* C19: with no raw text, renderMarkdown still performs the stability wait
\* before it returns its document.
C19_MissingTextCompletesWait ==
  (call.fn = "fixWaitRender" /\ call.pc = "returned" /\ ~call.data.present)
    => call.promise \in {"resolved", "rejected"}

\* ======================================================================
\* The completed flag of the modal (part_000 242-263)
\* ======================================================================
\* C20: completed is true only while every surface of the current rebuild
\* has signalled dom-ready and holds its injected styles and content.
C20_CompletedOnlyWhenAllInjected ==
  completed => \A w \in Attached : surfaces[w].ready /\ surfaces[w].injected

\* ======================================================================
\* appendWebview: the dom-ready handler of each surface (part_000 237-263)
\* and calcWebviewSize (part_000 185-195)
\* ======================================================================
MaxSurfaces == 2   \* surfaces attached by one rebuild

\* A surface as appendWebview leaves it: created, its handler registered,
\* nothing injected, no measurement asked.
Appended ==
  [pc |-> "loading", ready |-> FALSE, body |-> FALSE, patch |-> FALSE,
   threw |-> FALSE, warned |-> FALSE, measure |-> "none", target |-> None,
   targetReady |-> FALSE]

\* this.config.cssSnippet && this.config.cssSnippet != "0"
SnippetChosen(cssSnippet) == cssSnippet # "" /\ cssSnippet # "0"

\* The values of config.cssSnippet: the default "0", or a path.
CssSnippets == {"0", "snippet.css"}

\* The read or an insertCSS of the try block throws with no handler around
\* it.
SnippetAbort(s) == [s EXCEPT !.pc = "aborted"]

\* catch (error) { console.warn(error) }: on to executeJavaScript.
SnippetCatch(s) == [s EXCEPT !.pc = "replacing", !.warned = TRUE]

AttachInit ==
  /\ Parked
  /\ call \in {[fn |-> "attach", cssSnippet |-> c,
                preview |-> n, surfaces |-> [w \in 1..n |-> Appended]] :
               n \in 1..MaxSurfaces, c \in CssSnippets}

\* dom-ready of surface w: the handler runs to its first await. The styles
\* of getAllStyles are inserted without being awaited.
AttachDomReady(w) ==
  /\ call.fn = "attach"
  /\ w \in DOMAIN call.surfaces
  /\ call.surfaces[w].pc = "loading"
  /\ call' = [call EXCEPT
       !.surfaces[w].ready = TRUE,
       !.surfaces[w].pc = IF SnippetChosen(call.cssSnippet) THEN "reading"
                          ELSE "replacing"]
  /\ UNCHANGED vars

\* fs.readFile settles: with the text, or with an error.
SnippetRead(w, ok) ==
  /\ call.fn = "attach"
  /\ w \in DOMAIN call.surfaces
  /\ call.surfaces[w].pc = "reading"
  /\ call' = [call EXCEPT
       !.surfaces[w] = IF ok THEN [@ EXCEPT !.pc = "inserting"]
                       ELSE SnippetCatch([@ EXCEPT !.threw = TRUE])]
  /\ UNCHANGED vars

\* The two insertCSS calls of the snippet settle; a rejection is caught as
\* well.
SnippetInserted(w, ok) ==
  /\ call.fn = "attach"
  /\ w \in DOMAIN call.surfaces
  /\ call.surfaces[w].pc = "inserting"
  /\ call' = [call EXCEPT
       !.surfaces[w] = IF ok THEN [@ EXCEPT !.pc = "replacing"]
                       ELSE SnippetCatch([@ EXCEPT !.threw = TRUE])]
  /\ UNCHANGED vars

\* executeJavaScript(makeWebviewJs(doc)) has settled: the patch styles are
\* inserted and calcWebviewSize() is called, which starts its sleep(500).
BodyReplaced(w) ==
  /\ call.fn = "attach"
  /\ w \in DOMAIN call.surfaces
  /\ call.surfaces[w].pc = "replacing"
  /\ call' = [call EXCEPT
       !.surfaces[w].body = TRUE,
       !.surfaces[w].patch = TRUE,
       !.surfaces[w].measure = "sleeping",
       !.surfaces[w].pc = "done"]
  /\ UNCHANGED vars

\* calcWebviewSize after sleep(500), called by the handler of surface w:
\* this.preview.executeJavaScript(...) queries the surface appended last.
\* A surface that has not signalled dom-ready throws on executeJavaScript.
Measure(w) ==
  /\ call.fn = "attach"
  /\ w \in DOMAIN call.surfaces
  /\ call.surfaces[w].measure = "sleeping"
  /\ call' = [call EXCEPT
       !.surfaces[w].target = call.preview,
       !.surfaces[w].targetReady = call.surfaces[call.preview].ready,
       !.surfaces[w].measure =
          IF call.surfaces[call.preview].ready THEN "queried" ELSE "failed"]
  /\ UNCHANGED vars

AttachNext ==
  \E w \in 1..MaxSurfaces :
    \/ AttachDomReady(w)
    \/ \E ok \in BOOLEAN : SnippetRead(w, ok)
    \/ \E ok \in BOOLEAN : SnippetInserted(w, ok)
    \/ BodyReplaced(w)
    \/ Measure(w)

\* Every surface loads and every call to the host settles.
SpecAttach == AttachInit /\ [][AttachNext]_allVars /\ WF_allVars(AttachNext)

\* C21: the patch styles of a surface are inserted only once its body has
\* been replaced, and a surface whose snippet could not be read still gets
\* them and has its size measurement started.
C21_PatchAfterBodyDespiteSnippet ==
  /\ [](call.fn = "attach" =>
          \A w \in DOMAIN call.surfaces :
            call.surfaces[w].patch => call.surfaces[w].body)
  /\ \A w \in 1..MaxSurfaces :
       (call.fn = "attach" /\ w \in DOMAIN call.surfaces
        /\ call.surfaces[w].threw)
         ~> (/\ w \in DOMAIN call.surfaces
             /\ call.surfaces[w].patch
             /\ call.surfaces[w].measure # "none")

\* A surface whose snippet read failed has its body, its patch styles and a
\* measurement.
C21_Witness ==
  /\ call.fn = "attach"
  /\ \E w \in DOMAIN call.surfaces :
       /\ call.surfaces[w].threw
       /\ call.surfaces[w].body
       /\ call.surfaces[w].patch
       /\ call.surfaces[w].measure \in {"queried", "failed"}

\* C22: a measurement queries the surface whose readiness triggered it, and
\* that surface has signalled dom-ready.
C22_MeasureOwnReadySurface ==
  call.fn = "attach" =>
    \A w \in DOMAIN call.surfaces :
      call.surfaces[w].target # None =>
        call.surfaces[w].target = w /\ call.surfaces[w].targetReady

\* ======================================================================
\* The preview container: the size readout (part_000 185-206, 290-300),
\* the scale of the surfaces (part_000 168-183, render.ts 325-337) and the
\* rebuilds that empty the container (part_000 265-279)
\* ======================================================================
MaxPreviewEvents == 3   \* resizes, refreshes and page-size changes

\* createWebview(scale = 1.25)
DefaultScale == Hundredths(125)

\* Two of the page sizes of the dropdown.
PageSizes == {"A4", "Custom"}

\* mm2px of PageSize[pageSize][0], or of config.pageWidth for Custom.
PageWidthPx(pageSize) == IF pageSize = "Custom" THEN 1 ELSE MaxPageWidthPx

\* el.offsetWidth of the preview container.
ContainerWidths == 1..MaxPageWidthPx

\* calcPageSize: the scale goes to every entry of this.webviews (this.preview
\* is one of them).
CalcPageSize(c, pageSize) ==
  [c EXCEPT !.surfaces =
     [w \in DOMAIN c.surfaces |->
        [c.surfaces[w] EXCEPT !.scale = Scale(PageWidthPx(pageSize), c.width)]]]

\* togglePrintSize: document.querySelector(".print-size"), and if it is
\* there its visibility follows the page size.
TogglePrintSize(readout, pageSize) ==
  IF readout.present
  THEN [readout EXCEPT !.visible = (pageSize = "Custom")]
  ELSE readout

\* onOpen has run: the container is created and emptied, the ResizeObserver
\* observes it (its first callback is due), appendWebviews awaits
\* renderFiles, the readout is created in the container and toggled.
PreviewInit ==
  /\ Parked
  /\ call \in {[fn |-> "preview", pageSize |-> ps, width |-> cw,
                resizePending |-> TRUE, rendering |-> 1, rebuilds |-> 0,
                events |-> 0, surfaces |-> <<>>, preview |-> None,
                readout |-> TogglePrintSize(
                    [present |-> TRUE, visible |-> TRUE, written |-> FALSE],
                    ps),
                measuring |-> 0, unwritten |-> FALSE] :
               ps \in PageSizes, cw \in ContainerWidths}

\* ResizeObserver callback: this.calcPageSize(el)
ResizeObserved ==
  /\ call.fn = "preview"
  /\ call.resizePending
  /\ call' = [CalcPageSize(call, call.pageSize) EXCEPT !.resizePending = FALSE]
  /\ UNCHANGED vars

\* The dialog is resized: the container gets another width.
ContainerResize(cw) ==
  /\ call.fn = "preview"
  /\ call.events < MaxPreviewEvents
  /\ cw # call.width
  /\ call' = [call EXCEPT !.width = cw, !.resizePending = TRUE,
                          !.events = call.events + 1]
  /\ UNCHANGED vars

\* Refresh button: appendWebviews(this.previewDiv) awaits renderFiles.
PreviewRefresh ==
  /\ call.fn = "preview"
  /\ call.events < MaxPreviewEvents
  /\ call' = [call EXCEPT !.rendering = call.rendering + 1,
                          !.events = call.events + 1]
  /\ UNCHANGED vars

\* renderFiles is over: e.empty() takes every child out of the container,
\* the readout among them, and appendWebview creates the new surface with
\* the default scale.
RebuildDone ==
  /\ call.fn = "preview"
  /\ call.rendering > 0
  /\ call' = [call EXCEPT
       !.rendering = call.rendering - 1,
       !.rebuilds = call.rebuilds + 1,
       !.readout.present = FALSE,
       !.surfaces =
          [w \in DOMAIN call.surfaces |->
             [call.surfaces[w] EXCEPT !.attached = FALSE, !.ready = FALSE]]
          \o <<[attached |-> TRUE, ready |-> FALSE, scale |-> DefaultScale]>>,
       !.preview = Len(call.surfaces) + 1]
  /\ UNCHANGED vars

\* dom-ready of surface w and its handler: the injections, then
\* calcWebviewSize() starts.
PreviewDomReady(w) ==
  /\ call.fn = "preview"
  /\ w \in DOMAIN call.surfaces
  /\ call.surfaces[w].attached
  /\ ~call.surfaces[w].ready
  /\ call' = [call EXCEPT !.surfaces[w].ready = TRUE,
                          !.measuring = call.measuring + 1]
  /\ UNCHANGED vars

\* Page-size dropdown: config.pageSize = value; togglePrintSize();
\* calcPageSize(); calcWebviewSize() starts.
PageSizeChange(value) ==
  /\ call.fn = "preview"
  /\ call.events < MaxPreviewEvents
  /\ value # call.pageSize
  /\ call' = [CalcPageSize(call, value) EXCEPT
       !.pageSize = value,
       !.readout = TogglePrintSize(call.readout, value),
       !.measuring = call.measuring + 1,
       !.events = call.events + 1]
  /\ UNCHANGED vars

\* calcWebviewSize after its sleep: this.preview.executeJavaScript throws
\* without a ready surface; otherwise the measurement completes and the
\* sizes are written if document.querySelector(".print-size") finds the
\* readout.
MeasureDone ==
  /\ call.fn = "preview"
  /\ call.measuring > 0
  /\ call' =
       IF call.preview = None \/ ~call.surfaces[call.preview].ready
       THEN [call EXCEPT !.measuring = call.measuring - 1]
       ELSE IF call.readout.present
       THEN [call EXCEPT !.measuring = call.measuring - 1,
                         !.readout.written = TRUE]
       ELSE [call EXCEPT !.measuring = call.measuring - 1,
                         !.unwritten = TRUE]
  /\ UNCHANGED vars

PreviewNext ==
  \/ ResizeObserved
  \/ \E cw \in ContainerWidths : ContainerResize(cw)
  \/ PreviewRefresh
  \/ RebuildDone
  \/ \E w \in 1..(MaxPreviewEvents + 1) : PreviewDomReady(w)
  \/ \E value \in PageSizes : PageSizeChange(value)
  \/ MeasureDone

SpecPreview == PreviewInit /\ [][PreviewNext]_allVars

\* C23: every completed measurement is written to the readout; the readout
\* is in the container after every rebuild and is visible exactly when the
\* page size is Custom.
C23_ReadoutKeptAndWritten ==
  call.fn = "preview" =>
    /\ ~call.unwritten
    /\ call.rebuilds > 0 => call.readout.present
    /\ call.readout.visible <=> call.pageSize = "Custom"

\* C24: after a rebuild, with no render pass under way and no resize
\* callback due, every surface in the container carries the scale computed
\* from the current page width and container width.
C24_SurfacesCarryComputedScale ==
  (call.fn = "preview" /\ call.rebuilds > 0 /\ call.rendering = 0
   /\ ~call.resizePending) =>
    \A w \in DOMAIN call.surfaces :
      call.surfaces[w].attached =>
        call.surfaces[w].scale = Scale(PageWidthPx(call.pageSize), call.width)

\* ======================================================================
\* renderFiles and mergeDoc on a source without documents (part_000 98-144)
\* ======================================================================
\* C25: mergeDoc is never called with an empty sequence: no render pass ends
\* in mergeDoc reading docs[0] of an empty array.
C25_MergeDocNeverEmpty ==
  \A p \in DOMAIN passes : passes[p].pc # "failed"

\* C26: a wait during which the container went a whole quiet interval
\* without mutation is not ended by the timeout.
C26_QuietContainerResolves ==
  (call.fn = "fixWaitRender" /\ call.quiet) => call.promise # "rejected"

====
